---- MODULE Spec2Model ----
(***************************************************************************)
(* Model of the knowledge-manager server of mcp-global:                    *)
(*   crawler.py          strategy detection, sitemap resolution, the       *)
(*                       recursive frontier crawl, the batch fetcher and   *)
(*                       crawl_website, which joins them                   *)
(*   server.py           knowledge_create / knowledge_list /               *)
(*                       knowledge_remove over the knowledge-base          *)
(*                       directories                                       *)
(*   lancedb_wrapper.py  init_kb / add_documents / delete_kb               *)
(* Three groups of variables, one per part; a specification of one part    *)
(* keeps the other parts idle.                                             *)
(***************************************************************************)
EXTENDS Integers, Sequences, FiniteSets, TLC

VARIABLES
    \* ---- crawler.py: the arguments and the site crawled (never change)
    mode,        \* which function was called: "recursive", "sitemap", "urls"
    site,        \* page URL -> what crawler.arun yields for it
    links,       \* page URL -> result.links['internal'] hrefs, in page order
    docs,        \* sitemap URL -> whether its download succeeds, and its <loc> entries
    start_url,   \* start_url / sitemap_url argument
    max_pages,
    max_depth,
    website_crawler,  \* the WebsiteCrawler instance: self.max_pages, self.max_depth
    \* ---- crawler.py: locals of the running crawl
    pc,          \* "recursive", "crawl_urls", "gather", "done", "idle"
    visited,
    to_visit,
    pages,
    urls,        \* the list handed to crawl_urls
    batch_i,     \* i of `for i in range(0, len(urls), batch_size)`
    inflight,    \* positions of the current batch whose arun has not returned
    results,     \* position of the current batch -> outcome of its arun
    \* ---- crawler.py: history kept for the properties
    pageDepth,   \* depth at which each entry of pages was popped
    fetches,     \* every URL passed to crawler.arun, in issue order
    skips,       \* URLs discarded at pop time because already visited
    resolved,    \* extract_sitemap_urls(sitemap_url) before truncation
    \* ---- server.py / lancedb_wrapper.py
    kb,          \* name -> what lies under knowledge_bases_dir / name
    servers,     \* names whose generated server directory exists
    calls,       \* the knowledge_create calls suspended in their crawl
    created,     \* knowledge_create calls made so far
    resp,        \* what the tool call that returned last answered
    \* ---- crawler.py: detect_strategy
    seed,
    net,
    dpc,
    probes,
    dresult

worldVars == <<mode, site, links, docs, start_url, max_pages, max_depth, website_crawler>>
recVars   == <<visited, to_visit, pageDepth, skips>>
batchVars == <<urls, batch_i, inflight, results, resolved>>
crawlVars == <<worldVars, pc, recVars, batchVars, pages, fetches>>
kbVars    == <<kb, servers, calls, created, resp>>
detVars   == <<seed, net, dpc, probes, dresult>>
vars      == <<crawlVars, kbVars, detVars>>

(***************************************************************************)
(* Bounds of the model.                                                    *)
(***************************************************************************)
MaxPages == 3        \* max_pages is drawn from 0..MaxPages
MaxDepth == 2        \* max_depth is drawn from 0..MaxDepth
MaxUrls  == 11       \* longest list handed directly to crawl_urls
MaxFullWorld == 3    \* up to this many URLs every outcome combination is tried
RecursionLimit == 3  \* stands for the interpreter's recursion limit

Min(a, b) == IF a < b THEN a ELSE b
Max(a, b) == IF a > b THEN a ELSE b
Range(s)  == {s[k] : k \in 1..Len(s)}
NoDup(s)  == \A a, b \in 1..Len(s) : s[a] = s[b] => a = b

RECURSIVE Concat(_)
Concat(ss) == IF ss = <<>> THEN <<>> ELSE Head(ss) \o Concat(Tail(ss))

(***************************************************************************)
(* The URLs of the model.                                                  *)
(***************************************************************************)
Seed    == "https://ex.com"
PageA   == "https://ex.com/a"
PageB   == "https://ex.com/b"
Ext     == "https://other.org/x"
NoHref  == ""
RootMap == "https://ex.com/sitemap.xml"
SubMap1 == "https://ex.com/sitemap-1.xml"
SubMap2 == "https://ex.com/sitemap-2.xml"
Pages   == {Seed, PageA, PageB}
SitemapURLs == {RootMap, SubMap1, SubMap2}

\* URLs handed directly to crawl_urls: all distinct
UrlPool == <<"https://ex.com/p01", "https://ex.com/p02", "https://ex.com/p03",
             "https://ex.com/p04", "https://ex.com/p05", "https://ex.com/p06",
             "https://ex.com/p07", "https://ex.com/p08", "https://ex.com/p09",
             "https://ex.com/p10", "https://ex.com/p11", "https://ex.com/p12",
             "https://ex.com/p13", "https://ex.com/p14">>

\* what one crawler.arun(url) can do:
\*   "ok"    result.success and non-empty result.markdown
\*   "empty" result.success and empty result.markdown
\*   "fail"  not result.success
\*   "raise" the call raises
Outcomes == {"ok", "empty", "fail", "raise"}

SingleFault(U) ==
    {[u \in U |-> "ok"]} \cup
    {[u \in U |-> IF u = b THEN o ELSE "ok"] : b \in U, o \in Outcomes \ {"ok"}}

Worlds(U) == IF Cardinality(U) <= MaxFullWorld THEN [U -> Outcomes] ELSE SingleFault(U)

\* the test of the result dropped: whatever arun returns is a page
AcceptedAnyResult(o) == o \in {"ok", "empty", "fail"}

\* result.success and result.markdown
Accepted(o) == o = "ok"

\* the page dict appended to pages
PageOf(url) == [url |-> url, markdown |-> "text"]

(***************************************************************************)
(* get_base_domain and the same-domain test of crawl_recursive.            *)
(***************************************************************************)
get_base_domain(url) ==
    CASE url \in Pages \cup SitemapURLs -> "https://ex.com"
      [] url = Ext                      -> "https://other.org"
      [] OTHER                          -> "://"

\* link_url.startswith(base_domain), on the URLs of the model
StartsWith(link_url, base_domain) == get_base_domain(link_url) = base_domain

\* `if link_url and link_url.startswith(base_domain)`
IsInternal(link_url, base_domain) ==
    link_url # NoHref /\ StartsWith(link_url, base_domain)

\* the outcome of crawler.arun(url)
Outcome(url) == IF url \in DOMAIN site THEN site[url] ELSE "fail"

(***************************************************************************)
(* crawl_recursive(start_url, max_pages, max_depth)                        *)
(***************************************************************************)
\* the loop test with <= for <
LoopCondOffByOne(q, p, n) == q # <<>> /\ Len(p) <= n

\* `while to_visit and len(pages) < max_pages`
LoopCond(q, p, n) == q # <<>> /\ Len(p) < n

\* `if url in visited or depth > max_depth: continue`
ShouldSkip(url, depth, vis, md) == url \in vis \/ depth > md

\* the visited set never updated
MarkVisitedDropped(vis, url) == vis

\* `visited.add(url)`
MarkVisited(vis, url) == vis \cup {url}

\* `if depth < max_depth`
CanExpand(depth, md) == depth < md

\* a link enqueued at the depth of the page it was found on
ChildDepthSame(depth) == depth

\* the depth given to a link found on a page of depth `depth`: `depth + 1`
ChildDepth(depth) == depth + 1

RECURSIVE InternalEntries(_, _, _)
\* the entries appended to to_visit for the hrefs of one page, in page order
InternalEntries(hrefs, base_domain, depth) ==
    IF hrefs = <<>> THEN <<>>
    ELSE (IF IsInternal(Head(hrefs), base_domain)
          THEN <<[url |-> Head(hrefs), depth |-> ChildDepth(depth)]>>
          ELSE <<>>)
         \o InternalEntries(Tail(hrefs), base_domain, depth)

\* the head entry read without being removed
PopKeepsEntry(q) == q

\* what `to_visit.pop(0)` leaves in the queue
Pop(q) == Tail(q)

\* one iteration of the while loop
RecursiveStep ==
    /\ pc = "recursive"
    /\ LoopCond(to_visit, pages, max_pages)
    /\ LET e    == Head(to_visit)
           rest == Pop(to_visit)
       IN  IF ShouldSkip(e.url, e.depth, visited, max_depth)
           THEN /\ to_visit' = rest
                /\ skips' = IF e.url \in visited THEN skips \cup {e.url} ELSE skips
                /\ UNCHANGED <<visited, pages, pageDepth, fetches>>
           ELSE /\ visited' = MarkVisited(visited, e.url)
                /\ fetches' = Append(fetches, e.url)
                /\ skips' = skips
                /\ IF Accepted(Outcome(e.url))
                   THEN /\ pages' = Append(pages, PageOf(e.url))
                        /\ pageDepth' = Append(pageDepth, e.depth)
                        /\ to_visit' =
                             rest \o (IF CanExpand(e.depth, max_depth)
                                      THEN InternalEntries(links[e.url],
                                               get_base_domain(start_url), e.depth)
                                      ELSE <<>>)
                   ELSE /\ to_visit' = rest
                        /\ UNCHANGED <<pages, pageDepth>>
    /\ UNCHANGED <<worldVars, pc, batchVars, kbVars, detVars>>

\* the loop ends: `return pages`
RecursiveReturn ==
    /\ pc = "recursive"
    /\ ~LoopCond(to_visit, pages, max_pages)
    /\ pc' = "done"
    /\ UNCHANGED <<worldVars, recVars, batchVars, pages, fetches, kbVars, detVars>>

\* the link graphs tried: a chain, a cycle with repeated links, a graph with an
\* external link and an empty href, a star, and a page linking to itself
NoLinks == [u \in Pages |-> <<>>]
LinkGraphs ==
    { [NoLinks EXCEPT ![Seed] = <<PageA>>, ![PageA] = <<PageB>>],
      [NoLinks EXCEPT ![Seed] = <<PageA, PageA, PageB>>, ![PageA] = <<Seed, PageB>>,
                      ![PageB] = <<PageA, Seed>>],
      [NoLinks EXCEPT ![Seed] = <<Ext, NoHref, PageA>>, ![PageA] = <<PageB, PageB>>,
                      ![PageB] = <<Seed>>],
      [NoLinks EXCEPT ![Seed] = <<PageA, PageB>>],
      [NoLinks EXCEPT ![Seed] = <<Seed, PageB>>, ![PageB] = <<PageB, PageA>>,
                      ![PageA] = <<PageA>>] }

(***************************************************************************)
(* extract_sitemap_urls(sitemap_url)                                       *)
(***************************************************************************)
\* what requests.get(sitemap_url) + raise_for_status + re.findall yields
FailedDoc == [ok |-> FALSE, locs |-> <<>>]
Doc(sitemap_url) == IF sitemap_url \in DOMAIN docs THEN docs[sitemap_url] ELSE FailedDoc

\* `'sitemap' in url.lower() and url.endswith('.xml')`, on the URLs of the model
IsSubSitemap(url) == url \in SitemapURLs

RECURSIVE extract_sitemap_urls(_, _)
RECURSIVE ExpandLocs(_, _)
\* the loop given up at the first sub-sitemap whose download fails
ExpandLocsAborting(locs, depth) ==
    IF locs = <<>> THEN <<>>
    ELSE IF IsSubSitemap(Head(locs)) /\ ~Doc(Head(locs)).ok THEN <<>>
    ELSE (IF IsSubSitemap(Head(locs))
          THEN extract_sitemap_urls(Head(locs), depth + 1)
          ELSE <<Head(locs)>>)
         \o ExpandLocs(Tail(locs), depth)

\* `for url in urls:` of extract_sitemap_urls, at call depth `depth`
ExpandLocs(locs, depth) ==
    IF locs = <<>> THEN <<>>
    ELSE (IF IsSubSitemap(Head(locs))
          THEN extract_sitemap_urls(Head(locs), depth + 1)
          ELSE <<Head(locs)>>)
         \o ExpandLocs(Tail(locs), depth)

\* a failed download, like a call beyond the recursion limit, raises inside
\* the try and yields []
extract_sitemap_urls(sitemap_url, depth) ==
    IF depth > RecursionLimit \/ ~Doc(sitemap_url).ok
    THEN <<>>
    ELSE ExpandLocs(Doc(sitemap_url).locs, depth)

RECURSIVE SitemapRequests(_, _)
RECURSIVE RequestsOfLocs(_, _)
\* the sub-sitemaps requested by the `for url in urls:` loop, in order
RequestsOfLocs(locs, depth) ==
    IF locs = <<>> THEN <<>>
    ELSE (IF IsSubSitemap(Head(locs))
          THEN SitemapRequests(Head(locs), depth + 1)
          ELSE <<>>)
         \o RequestsOfLocs(Tail(locs), depth)

\* every URL extract_sitemap_urls(sitemap_url) passes to requests.get, in
\* order, itself and its nested calls; a call beyond the recursion limit
\* raises before it requests anything
SitemapRequests(sitemap_url, depth) ==
    IF depth > RecursionLimit THEN <<>>
    ELSE <<sitemap_url>> \o
         (IF Doc(sitemap_url).ok THEN RequestsOfLocs(Doc(sitemap_url).locs, depth)
          ELSE <<>>)

\* Python's s[:n]
PySliceTo(s, n) ==
    IF n >= 0 THEN SubSeq(s, 1, Min(n, Len(s)))
    ELSE SubSeq(s, 1, Max(Len(s) + n, 0))

\* the slice taken one element too long
TruncateOffByOne(us, n) == PySliceTo(us, n + 1)

\* `urls = urls[:max_pages]`
Truncate(us, n) == PySliceTo(us, n)

(***************************************************************************)
(* crawl_from_sitemap(sitemap_url, max_pages) up to `await crawl_urls`     *)
(***************************************************************************)
CrawlFromSitemap ==
    /\ pc = "sitemap"
    /\ resolved' = extract_sitemap_urls(start_url, 1)
    /\ urls' = Truncate(resolved', max_pages)
    /\ pc' = "crawl_urls"
    /\ UNCHANGED <<worldVars, recVars, batch_i, inflight, results, pages, fetches,
                   kbVars, detVars>>

(***************************************************************************)
(* crawl_urls(urls)                                                        *)
(***************************************************************************)
batch_size == 10

\* the slice without its upper end: everything left in one batch
BatchUnbounded(us, i) == SubSeq(us, i + 1, Len(us))

\* `urls[i:i+batch_size]`
Batch(us, i) == SubSeq(us, i + 1, Min(i + batch_size, Len(us)))

\* gather without return_exceptions: the first exception propagates
GatherPropagates(res) ==
    [raised |-> \E k \in DOMAIN res : res[k] = "raise", results |-> res]

\* `await asyncio.gather(*tasks, return_exceptions=True)`: an exception of one
\* task is returned in its place
Gather(res) == [raised |-> FALSE, results |-> res]

\* `if isinstance(result, Exception): continue`, then
\* `if result.success and result.markdown`
KeepResult(o) == o # "raise" /\ Accepted(o)

RECURSIVE BatchPages(_, _, _)
\* `for url, result in zip(batch, results)` from position k on
BatchPages(b, res, k) ==
    IF k > Len(b) THEN <<>>
    ELSE (IF KeepResult(res[k]) THEN <<PageOf(b[k])>> ELSE <<>>)
         \o BatchPages(b, res, k + 1)

\* the tasks of one batch are created and gather starts them all
BatchStart ==
    /\ pc = "crawl_urls"
    /\ batch_i < Len(urls)
    /\ LET b == Batch(urls, batch_i)
       IN  /\ inflight' = 1..Len(b)
           /\ results' = [k \in 1..Len(b) |-> "pending"]
           /\ fetches' = fetches \o b
    /\ pc' = "gather"
    /\ UNCHANGED <<worldVars, recVars, urls, batch_i, resolved, pages, kbVars, detVars>>

\* one arun of the batch returns or raises
FetchComplete ==
    /\ pc = "gather"
    /\ \E k \in inflight :
         /\ inflight' = inflight \ {k}
         /\ results' = [results EXCEPT ![k] = Outcome(Batch(urls, batch_i)[k])]
    /\ UNCHANGED <<worldVars, recVars, urls, batch_i, resolved, pc, pages, fetches,
                   kbVars, detVars>>

\* gather returns: the results are zipped with the batch
BatchJoin ==
    /\ pc = "gather"
    /\ inflight = {}
    /\ LET got == Gather(results)
       IN  IF got.raised
           THEN /\ pc' = "raised"
                /\ UNCHANGED <<pages, batch_i>>
           ELSE /\ pages' = pages \o BatchPages(Batch(urls, batch_i), got.results, 1)
                /\ batch_i' = batch_i + batch_size
                /\ pc' = "crawl_urls"
    /\ results' = <<>>
    /\ UNCHANGED <<worldVars, recVars, urls, inflight, resolved, fetches, kbVars, detVars>>

\* the for loop is exhausted: `return pages`
CrawlUrlsReturn ==
    /\ pc = "crawl_urls"
    /\ batch_i >= Len(urls)
    /\ pc' = "done"
    /\ UNCHANGED <<worldVars, recVars, batchVars, pages, fetches, kbVars, detVars>>

\* the sitemaps tried: flat, an index of two sitemaps sharing a page, a page
\* listed twice, an index with a failing branch, a failing root, and an index
\* that lists itself
NoDocs == [u \in SitemapURLs |-> FailedDoc]
Locs(s) == [ok |-> TRUE, locs |-> s]
SitemapSets ==
    { [NoDocs EXCEPT ![RootMap] = Locs(<<Seed, PageA, PageB>>)],
      [NoDocs EXCEPT ![RootMap] = Locs(<<SubMap1, SubMap2>>), ![SubMap1] = Locs(<<Seed, PageA>>),
                     ![SubMap2] = Locs(<<PageA, PageB>>)],
      [NoDocs EXCEPT ![RootMap] = Locs(<<PageA, PageA, PageB>>)],
      [NoDocs EXCEPT ![RootMap] = Locs(<<SubMap1, PageB, SubMap2>>), ![SubMap2] = Locs(<<Seed>>)],
      NoDocs,
      [NoDocs EXCEPT ![RootMap] = Locs(<<RootMap, PageA>>)],
      [NoDocs EXCEPT ![RootMap] = Locs(<<SubMap1, PageA>>),
                     ![SubMap1] = Locs(<<RootMap, PageB>>)] }

(***************************************************************************)
(* The crawler specifications.                                             *)
(***************************************************************************)
KbIdle  == kb = <<>> /\ servers = {} /\ calls = <<>> /\ created = 0 /\ resp = <<>>
DetIdle == seed = <<>> /\ net = <<>> /\ dpc = "idle" /\ probes = <<>> /\ dresult = <<>>

CrawlLocalsInit ==
    /\ visited = {}
    /\ pages = <<>>
    /\ pageDepth = <<>>
    /\ fetches = <<>>
    /\ skips = {}
    /\ resolved = <<>>
    /\ batch_i = 0
    /\ inflight = {}
    /\ results = <<>>

\* crawl_recursive(Seed, max_pages, max_depth) after its first four lines
InitRecursive ==
    /\ mode = "recursive"
    /\ site \in Worlds(Pages)
    /\ links \in LinkGraphs
    /\ docs = NoDocs
    /\ start_url = Seed
    /\ max_pages \in 0..MaxPages
    /\ max_depth \in 0..MaxDepth
    /\ website_crawler = <<>>
    /\ pc = "recursive"
    /\ to_visit = <<[url |-> Seed, depth |-> 0]>>
    /\ urls = <<>>
    /\ CrawlLocalsInit

\* crawl_from_sitemap(RootMap, max_pages) on entry
InitSitemap ==
    /\ mode = "sitemap"
    /\ site \in Worlds(Pages)
    /\ links = NoLinks
    /\ docs \in SitemapSets
    /\ start_url = RootMap
    /\ max_pages \in 0..MaxPages
    /\ max_depth = 0
    /\ website_crawler = <<>>
    /\ pc = "sitemap"
    /\ to_visit = <<>>
    /\ urls = <<>>
    /\ CrawlLocalsInit

\* crawl_urls(urls) on entry
InitUrls ==
    /\ mode = "urls"
    /\ urls \in {SubSeq(UrlPool, 1, n) : n \in 0..MaxUrls}
    /\ site \in Worlds(Range(urls))
    /\ links = NoLinks
    /\ docs = NoDocs
    /\ start_url = NoHref
    /\ max_pages = 0
    /\ max_depth = 0
    /\ website_crawler = <<>>
    /\ pc = "crawl_urls"
    /\ to_visit = <<>>
    /\ CrawlLocalsInit

Init == (InitRecursive \/ InitSitemap) /\ KbIdle /\ DetIdle

Next ==
    \/ RecursiveStep
    \/ RecursiveReturn
    \/ CrawlFromSitemap
    \/ BatchStart
    \/ FetchComplete
    \/ BatchJoin
    \/ CrawlUrlsReturn

Spec == Init /\ [][Next]_vars

InitBatch == InitUrls /\ KbIdle /\ DetIdle

NextUrls ==
    \/ BatchStart
    \/ FetchComplete
    \/ BatchJoin
    \/ CrawlUrlsReturn

SpecUrls == InitBatch /\ [][NextUrls]_vars

\* each crawl is one coroutine that the event loop runs whenever it can go
\* on, and every fetch it awaits returns or raises
SpecFair == Spec /\ WF_vars(Next)

(***************************************************************************)
(* server.py: the knowledge-base directories and the three tool handlers.  *)
(* kb[n] is what lies under knowledge_bases_dir / n:                       *)
(*   dir        the directory exists                                       *)
(*   meta       metadata.json: "absent", "partial" (opened for writing,    *)
(*              the dump did not finish) or "full"                         *)
(*   documents, embedding_model, use_openai   the fields of a full file    *)
(*   lancedir   the lancedb directory exists                               *)
(*   inner      lancedb/metadata.json, written by init_kb                  *)
(*   table      the "documents" table exists                               *)
(*   rows       its number of rows                                         *)
(*   vec        the embedding identities its vectors were made with        *)
(* servers is the set of names whose generated server directory exists.    *)
(***************************************************************************)
MaxCalls   == 2      \* knowledge_create calls made in one run, and at once
MaxCrawled == 2      \* longest page list the crawl hands to knowledge_create

\* knowledge-base names, as character sequences
NameA   == <<"k", "b">>
NameB   == <<"d", "-", "1">>
BadName == <<"a", " ">>
\* "U+00BD" stands for the one character VULGAR FRACTION ONE HALF
OddName == <<"k", "U+00BD">>
AllNames == {NameA, NameB, BadName, OddName}

Letters == {"a", "d", "k", "b"}
Digits  == {"1"}
\* characters that are neither letters nor digits and for which
\* str.isnumeric() is true
OtherNumeric == {"U+00BD"}
\* the characters c with c.isalpha() or c.isdecimal() or c.isdigit() or
\* c.isnumeric()
AlnumChars == Letters \cup Digits \cup OtherNumeric

\* c not in ('-', '_'): what the two replace calls leave
NotSeparator(c) == c \notin {"-", "_"}

\* str.isalnum(): non-empty and every character alphanumeric
IsAlnum(str) == str # <<>> /\ \A k \in 1..Len(str) : str[k] \in AlnumChars

\* `kb_name.replace("-", "").replace("_", "").isalnum()`
ValidName(kb_name) == IsAlnum(SelectSeq(kb_name, NotSeparator))

KbNames == {n \in AllNames : ValidName(n)}

DefaultModel == "all-MiniLM-L6-v2"
OtherModel   == "paraphrase-MiniLM-L3-v2"
OpenAiModel  == "text-embedding-3-small"

\* the (use_openai_embeddings, embedding_model) arguments tried
EmbeddingArgs ==
    { [use_openai |-> FALSE, embedding_model |-> DefaultModel],
      [use_openai |-> FALSE, embedding_model |-> OtherModel],
      [use_openai |-> TRUE,  embedding_model |-> DefaultModel] }

\* LanceDBManager.__init__: the identity the manager embeds with
EmbeddingIdentity(use_openai, embedding_model) ==
    IF use_openai THEN OpenAiModel ELSE embedding_model

Absent ==
    [dir |-> FALSE, meta |-> "absent", documents |-> 0, embedding_model |-> "",
     use_openai |-> FALSE, lancedir |-> FALSE, inner |-> FALSE, table |-> FALSE,
     rows |-> 0, vec |-> {}]

\* the existence check dropped
PathExistsNever(name) == FALSE

\* kb_path.exists()
PathExists(name) == name \in DOMAIN kb /\ kb[name].dir

\* what WebsiteCrawler.crawl_website returns: pages whose markdown is truthy,
\* either text or whitespace only
PageTexts == {"text", "blank"}
RECURSIVE SeqsUpTo(_, _)
SeqsUpTo(S, n) ==
    IF n = 0 THEN {<<>>}
    ELSE LET shorter == SeqsUpTo(S, n - 1)
         IN  shorter \cup {Append(q, x) : q \in {r \in shorter : Len(r) = n - 1}, x \in S}
PageLists == SeqsUpTo(PageTexts, MaxCrawled)

\* everything outside the handler that decides its path
AllCreateEnvs ==
    [ crawlOk : BOOLEAN,         \* crawl_website returned (did not raise)
      pages   : PageLists,
      ctorOk  : BOOLEAN,         \* LanceDBManager(...) did not raise
      initOk  : BOOLEAN,         \* lancedb.connect and the inner metadata write
      embedOk : BOOLEAN,         \* embedding and table creation did not raise
      metaOk  : BOOLEAN,         \* open + json.dump of metadata.json did not raise
      gen     : {"ok", "fail", "faildir"} ]   \* generate_kb_mcp

\* a step the handler does not reach has no outcome: it is kept at its default
Reached(o) ==
    /\ (~o.crawlOk => o.pages = <<>>)
    /\ (o.pages = <<>> => o.ctorOk)
    /\ (~o.ctorOk => o.initOk /\ o.pages = <<"text">>)
    /\ (~o.initOk => o.embedOk /\ o.pages = <<"text">>)
    /\ (~o.embedOk => o.metaOk)
    /\ (~o.metaOk => o.gen = "ok")
    /\ (o.pages = <<>> => o.initOk /\ o.embedOk /\ o.metaOk /\ o.gen = "ok")

CreateEnvs == {o \in AllCreateEnvs : Reached(o)}

\* `if doc["content"]`: the crawler's pages all have truthy content
BuildDocuments(pgs) == SelectSeq(pgs, LAMBDA t : t \in PageTexts)

\* `if not content.strip(): continue`
HasText(content) == content # "blank"

\* add_documents on an initialised manager: [ok, fs]
AddDocuments(f, documents, identity, embedOk) ==
    LET table_data == SelectSeq(documents, HasText)
    IN  IF table_data = <<>> \/ ~embedOk
        THEN [ok |-> FALSE, fs |-> f]
        ELSE [ok |-> TRUE,
              fs |-> [f EXCEPT !.table = TRUE,
                               !.rows = @ + Len(table_data),
                               !.vec = @ \cup {identity}]]

\* add_documents' result ignored
IndexingPassedAlways(documents, ok) == TRUE

\* `if documents: success = add_documents(...); if not success: return`
IndexingPassed(documents, ok) == documents = <<>> \/ ok

\* the zero-pages test dropped
NoPagesNever(pgs) == FALSE

\* `if not pages: return` the "No pages were crawled" text
NoPages(pgs) == pgs = <<>>

\* generate_kb_mcp: whether the server directory exists afterwards
ServerDirAfter(srv, gen) == srv \/ gen \in {"ok", "faildir"}

\* a failed generation made fatal
CreateResultStrict(gen) == IF gen = "ok" THEN "success" ELSE "exception"

\* what the handler returns after the metadata write: generate_kb_mcp's
\* False and an auto-registration error are printed, and the
\* "Successfully created" text is returned either way
CreateResult(gen) == "success"

\* _handle_knowledge_create from the return of crawl_website on:
\* [fs, srv, result]
CreateAfterCrawl(f, srv, a, o) ==
    LET End(fs, sv, result) == [fs |-> fs, srv |-> sv, result |-> result]
        f1 == [f EXCEPT !.dir = TRUE]
        f2 == [f1 EXCEPT !.lancedir = TRUE]
        f3 == [f2 EXCEPT !.inner = TRUE]
        documents == BuildDocuments(o.pages)
        added == IF documents = <<>> THEN [ok |-> TRUE, fs |-> f3]
                 ELSE AddDocuments(f3, documents,
                          EmbeddingIdentity(a.use_openai, a.embedding_model), o.embedOk)
        f4 == added.fs
        f5 == [f4 EXCEPT !.meta = "full", !.documents = Len(documents),
                         !.embedding_model = a.embedding_model,
                         !.use_openai = a.use_openai]
    IN  IF ~o.crawlOk THEN End(f, srv, "exception")
        ELSE IF NoPages(o.pages) THEN End(f, srv, "no_pages")
        ELSE IF ~o.ctorOk THEN End(f1, srv, "exception")
        ELSE IF ~o.initOk THEN End(f2, srv, "init_failed")
        ELSE IF ~IndexingPassed(documents, added.ok) THEN End(f4, srv, "index_failed")
        ELSE IF ~o.metaOk THEN End([f4 EXCEPT !.meta = "partial"], srv, "exception")
        ELSE End(f5, ServerDirAfter(srv, o.gen), CreateResult(o.gen))

\* what a tool call answers: the tool, the name it was given, whether the
\* name's directory existed when the handler tested it, the kind of text
\* returned and, for knowledge_list, the names shown
Response(op, name, existed, kind, shown) ==
    [op |-> op, name |-> name, existed |-> existed, kind |-> kind, shown |-> shown]

FreeCall == [pc |-> "free", name |-> <<>>, use_openai |-> FALSE,
             embedding_model |-> ""]

\* knowledge_create up to `await crawler.crawl_website(url)`
CreateBegin(c) ==
    /\ created < MaxCalls
    /\ calls[c].pc = "free"
    /\ \A b \in 1..(c - 1) : calls[b].pc # "free"
    /\ created' = created + 1
    /\ \E name \in AllNames, e \in EmbeddingArgs :
         IF ~ValidName(name)
         THEN /\ resp' = Response("create", name, FALSE, "invalid", {})
              /\ calls' = calls
         ELSE IF PathExists(name)
         THEN /\ resp' = Response("create", name, TRUE, "exists", {})
              /\ calls' = calls
         ELSE /\ resp' = resp
              /\ calls' = [calls EXCEPT ![c] =
                              [pc |-> "crawling", name |-> name,
                               use_openai |-> e.use_openai,
                               embedding_model |-> e.embedding_model]]
    /\ UNCHANGED <<kb, servers, crawlVars, detVars>>

\* knowledge_create from the return of the crawl to its own return
CreateResume(c) ==
    /\ calls[c].pc = "crawling"
    /\ \E o \in CreateEnvs :
         LET name == calls[c].name
             r == CreateAfterCrawl(kb[name], name \in servers, calls[c], o)
         IN  /\ kb' = [kb EXCEPT ![name] = r.fs]
             /\ servers' = IF r.srv THEN servers \cup {name} ELSE servers
             /\ resp' = Response("create", name, FALSE, r.result, {})
    /\ calls' = [calls EXCEPT ![c] = FreeCall]
    /\ UNCHANGED <<created, crawlVars, detVars>>

\* what a metadata.json can hold besides the server's own complete file:
\*   "partial"        a cut-short file, which json.load rejects
\*   "not_object"     JSON that is not an object, e.g. a list
\*   "odd_documents"  an object whose "documents" is not a number
\*   "odd_created"    an object whose "created_at" is a number
\* json.load reads the last three; metadata.get exists only on an object
ObjectKinds == {"full", "odd_documents", "odd_created"}

\* a directory whose metadata.json exists, json.load reads and metadata.get
\* works on: the entries appended to kbs
Listable(f) == f.dir /\ f.meta \in ObjectKinds

\* the knowledge bases _handle_knowledge_list shows
Listed == {n \in DOMAIN kb : Listable(kb[n])}

\* `kbs.sort(key=lambda x: x["created_at"], reverse=True)` compares the
\* created_at values of the entries and raises TypeError between a number
\* and a string
SortRaises ==
    \E a, b \in Listed : kb[a].meta = "odd_created" /\ kb[b].meta # "odd_created"

\* _handle_knowledge_list
KnowledgeList ==
    /\ resp' = IF SortRaises THEN Response("list", <<>>, FALSE, "failed", {})
               ELSE Response("list", <<>>, FALSE, "ok", Listed)
    /\ UNCHANGED <<kb, servers, calls, created, crawlVars, detVars>>

\* the text _handle_knowledge_remove returns when kb_path does not exist
RemoveMissing == "not_found"

\* _handle_knowledge_remove
KnowledgeRemove ==
    /\ \E name \in AllNames, rmOk \in BOOLEAN :
         IF ~PathExists(name)
         THEN /\ resp' = Response("remove", name, FALSE, RemoveMissing, {})
              /\ UNCHANGED <<kb, servers>>
         ELSE IF ~rmOk
         THEN /\ resp' = Response("remove", name, TRUE, "failed", {})
              /\ UNCHANGED <<kb, servers>>
         ELSE /\ resp' = Response("remove", name, TRUE, "ok", {})
              /\ kb' = [kb EXCEPT ![name] = Absent]
              /\ servers' = servers \ {name}
    /\ UNCHANGED <<calls, created, crawlVars, detVars>>

\* LanceDBManager.delete_kb(knowledge_bases_dir / name)
DeleteKb ==
    /\ \E name \in AllNames, rmOk \in BOOLEAN :
         IF ~PathExists(name)
         THEN /\ resp' = Response("delete_kb", name, FALSE, "ok", {})
              /\ kb' = kb
         ELSE IF ~rmOk
         THEN /\ resp' = Response("delete_kb", name, TRUE, "failed", {})
              /\ kb' = kb
         ELSE /\ resp' = Response("delete_kb", name, TRUE, "ok", {})
              /\ kb' = [kb EXCEPT ![name] = Absent]
    /\ UNCHANGED <<servers, calls, created, crawlVars, detVars>>

\* the path handed to LanceDBManager.search: knowledge_bases_dir / name, as the
\* generated server passes it, or the path knowledge_create gave to init_kb
\* and add_documents, knowledge_bases_dir / name / "lancedb"
SearchPaths == {"kb_path", "store"}

\* `db_path = kb_path / "lancedb"; db_path.exists()`.  init_kb was given
\* name/lancedb and connected to name/lancedb/lancedb, which lancedb.connect
\* creates; the model holds that directory to exist when init_kb passed
DbPathExists(f, path) == IF path = "kb_path" THEN f.lancedir ELSE f.inner

\* `"documents" in self.db.table_names()`: the table lies in
\* name/lancedb/lancedb, so a connection to name/lancedb does not see it
TableSeen(f, path) == path = "store" /\ f.table

\* what LanceDBManager.search returns: "not_found", "no_documents" and
\* "failed" are None; "empty" is the dictionary with total 0
SearchKind(f, path, ok) ==
    IF ~DbPathExists(f, path) THEN "not_found"
    ELSE IF ~TableSeen(f, path) THEN "no_documents"
    ELSE IF ~ok THEN "failed"
    ELSE IF f.rows = 0 THEN "empty"
    ELSE "results"

\* the identity the query was embedded with, "" when search returned before
QueryIdentity(f, path, identity) ==
    IF DbPathExists(f, path) /\ TableSeen(f, path) THEN identity ELSE ""

\* LanceDBManager(...).search(path, query) by a manager newly constructed
\* with any of the embedding arguments; ok is whether embedding the query and
\* the table search return, which matters only when the table is opened
Search ==
    /\ \E name \in KbNames, path \in SearchPaths, e \in EmbeddingArgs :
         \E ok \in IF TableSeen(kb[name], path) THEN BOOLEAN ELSE {TRUE} :
         LET f == kb[name]
             identity == EmbeddingIdentity(e.use_openai, e.embedding_model)
         IN  resp' = [op |-> "search", name |-> name,
                      existed |-> DbPathExists(f, path),
                      kind |-> SearchKind(f, path, ok), shown |-> {},
                      path |-> path,
                      identity |-> QueryIdentity(f, path, identity)]
    /\ UNCHANGED <<kb, servers, calls, created, crawlVars, detVars>>

CrawlIdle ==
    /\ mode = "none" /\ site = <<>> /\ links = <<>> /\ docs = <<>>
    /\ start_url = NoHref /\ max_pages = 0 /\ max_depth = 0
    /\ website_crawler = <<>>
    /\ pc = "idle" /\ to_visit = <<>> /\ urls = <<>>
    /\ CrawlLocalsInit

\* a knowledge base as one successful knowledge_create leaves it
CreatedKb ==
    [Absent EXCEPT !.dir = TRUE, !.meta = "full", !.documents = 1,
                   !.embedding_model = DefaultModel, !.lancedir = TRUE,
                   !.inner = TRUE, !.table = TRUE, !.rows = 1,
                   !.vec = {DefaultModel}]

\* what a directory under knowledge_bases_dir can be when knowledge_list
\* runs: absent, a created knowledge base, or a directory whose
\* metadata.json is missing or is not the server's complete file
DirStates ==
    {Absent, CreatedKb}
    \cup {[Absent EXCEPT !.dir = TRUE, !.meta = m] :
              m \in {"absent", "partial", "not_object", "odd_documents", "odd_created"}}

\* knowledge_list over any knowledge_bases_dir
InitList ==
    /\ kb \in [KbNames -> DirStates]
    /\ servers = {}
    /\ calls = [c \in 1..MaxCalls |-> FreeCall]
    /\ created = 0
    /\ resp = Response("none", <<>>, FALSE, "", {})
    /\ CrawlIdle
    /\ DetIdle

NextList == KnowledgeList

SpecList == InitList /\ [][NextList]_vars

\* KnowledgeManagerServer() over an empty knowledge_bases_dir
InitKb ==
    /\ kb = [n \in KbNames |-> Absent]
    /\ servers = {}
    /\ calls = [c \in 1..MaxCalls |-> FreeCall]
    /\ created = 0
    /\ resp = Response("none", <<>>, FALSE, "", {})
    /\ CrawlIdle
    /\ DetIdle

NextKb ==
    \/ \E c \in 1..MaxCalls : CreateBegin(c)
    \/ \E c \in 1..MaxCalls : CreateResume(c)
    \/ KnowledgeList
    \/ KnowledgeRemove
    \/ DeleteKb
    \/ Search

SpecKb == InitKb /\ [][NextKb]_vars

(***************************************************************************)
(* crawler.py: detect_strategy and check_sitemap.  A URL is a sequence of  *)
(* characters; the path joined to it is one element.                       *)
(***************************************************************************)
MaxSeedLen == 2      \* longest seed after its optional scheme prefix

HttpPrefix  == <<"h", "t", "t", "p", ":", "/", "/">>
HttpsPrefix == <<"h", "t", "t", "p", "s", ":", "/", "/">>
SeedChars   == {"a", "/", "["}

SeqsOfLen(S, n) == {q \in SeqsUpTo(S, n) : Len(q) = n}
Seeds ==
    {pre \o body : pre \in {<<>>, HttpPrefix, HttpsPrefix},
                   body \in SeqsUpTo(SeedChars, MaxSeedLen)}

\* str.startswith
StartsWithSeq(str, prefix) ==
    Len(str) >= Len(prefix) /\ SubSeq(str, 1, Len(prefix)) = prefix

RECURSIVE RStrip(_, _)
\* str.rstrip(c)
RStrip(str, c) ==
    IF str # <<>> /\ str[Len(str)] = c THEN RStrip(SubSeq(str, 1, Len(str) - 1), c)
    ELSE str

\* the `# Normalize URL` lines of detect_strategy
Normalize(url) ==
    RStrip(IF StartsWithSeq(url, HttpPrefix) \/ StartsWithSeq(url, HttpsPrefix)
           THEN url ELSE HttpsPrefix \o url, "/")

\* a normalised URL begins with http: or https:
SchemeOf(url) ==
    IF StartsWithSeq(url, <<"h", "t", "t", "p", "s", ":">>)
    THEN <<"h", "t", "t", "p", "s", ":">> ELSE <<"h", "t", "t", "p", ":">>

AfterScheme(url) == SubSeq(url, Len(SchemeOf(url)) + 1, Len(url))

RECURSIVE UpToSlash(_)
UpToSlash(str) ==
    IF str = <<>> \/ Head(str) = "/" THEN <<>> ELSE <<Head(str)>> \o UpToSlash(Tail(str))

\* urlsplit(url).netloc: what follows "//" up to the next "/"
Netloc(url) ==
    LET rest == AfterScheme(url)
    IN  IF StartsWithSeq(rest, <<"/", "/">>) THEN UpToSlash(SubSeq(rest, 3, Len(rest)))
        ELSE <<>>

\* urlsplit raises ValueError("Invalid IPv6 URL") on an unbalanced bracket
UrlsplitRaises(url) ==
    LET n == Range(Netloc(url))
    IN  ("[" \in n /\ "]" \notin n) \/ ("]" \in n /\ "[" \notin n)

\* urljoin(base_url, path) for an absolute path
urljoin(base_url, path) ==
    SchemeOf(base_url) \o <<"/", "/">> \o Netloc(base_url) \o <<path>>

common_paths == <<"/sitemap.xml", "/sitemap_index.xml", "/sitemap/sitemap.xml">>

\* what a request can do
ProbeOutcomes == {"200", "404", "error"}

\* a line of robots.txt: whether it starts with `sitemap:` (any case), the URL
\* after the colon (empty when nothing follows) and what requests.head does with it
RobotsLine(isSitemap, url, verify) ==
    [isSitemap |-> isSitemap, url |-> url, verify |-> verify]
RobotsMap1 == <<"h", "t", "t", "p", "s", ":", "/", "/", "a", "/sitemap_index.xml">>
RobotsMap2 == <<"h", "t", "t", "p", "s", ":", "/", "/", "a", "/maps.xml">>
OtherLine  == RobotsLine(FALSE, <<>>, "error")
EmptyLine  == RobotsLine(TRUE, <<>>, "error")
RobotsFiles ==
    { <<>>, <<OtherLine>>, <<OtherLine, EmptyLine>> }
    \cup {<<OtherLine, RobotsLine(TRUE, RobotsMap1, v)>> : v \in ProbeOutcomes}
    \cup {<<EmptyLine, RobotsLine(TRUE, RobotsMap1, v), RobotsLine(TRUE, RobotsMap2, w)>> :
              v \in {"404", "error"}, w \in ProbeOutcomes}

\* the network: requests.head of each common path, requests.get of robots.txt
Nets ==
    [ head   : [1..Len(common_paths) -> ProbeOutcomes],
      robots : ProbeOutcomes,
      lines  : RobotsFiles ]

RECURSIVE FirstVerified(_)
\* a sitemap line accepted without its verification request
FirstVerifiedUnchecked(lines) ==
    IF lines = <<>> THEN [found |-> FALSE, url |-> <<>>]
    ELSE IF Head(lines).isSitemap
         THEN [found |-> TRUE, url |-> Head(lines).url]
         ELSE FirstVerified(Tail(lines))

\* the `for line in response.text.split('\n')` loop: the first sitemap line
\* whose verification answers 200
FirstVerified(lines) ==
    IF lines = <<>> THEN [found |-> FALSE, url |-> <<>>]
    ELSE IF Head(lines).isSitemap /\ Head(lines).verify = "200"
         THEN [found |-> TRUE, url |-> Head(lines).url]
         ELSE FirstVerified(Tail(lines))

\* the requests made by that loop, in order
RECURSIVE VerifyProbes(_)
VerifyProbes(lines) ==
    IF lines = <<>> THEN <<>>
    ELSE IF Head(lines).isSitemap
         THEN <<Head(lines).url>> \o
              (IF Head(lines).verify = "200" THEN <<>> ELSE VerifyProbes(Tail(lines)))
         ELSE VerifyProbes(Tail(lines))

\* the common paths probed, up to and including the first that answers 200
CommonProbed(n) ==
    LET hits == {k \in 1..Len(common_paths) : n.head[k] = "200"}
        last == IF hits = {} THEN Len(common_paths)
                ELSE CHOOSE k \in hits : \A j \in hits : k <= j
    IN  [found |-> hits # {}, last |-> last]

\* check_sitemap(base_url): [raised, found, url, probes]
check_sitemap(base_url, n) ==
    IF UrlsplitRaises(base_url)
    THEN [raised |-> TRUE, found |-> FALSE, url |-> <<>>, probes |-> <<>>]
    ELSE LET c == CommonProbed(n)
             probed == [k \in 1..c.last |-> urljoin(base_url, common_paths[k])]
             r == FirstVerified(n.lines)
         IN  IF c.found
             THEN [raised |-> FALSE, found |-> TRUE, url |-> probed[c.last],
                   probes |-> probed]
             ELSE IF n.robots # "200"
             THEN [raised |-> FALSE, found |-> FALSE, url |-> <<>>,
                   probes |-> Append(probed, urljoin(base_url, "/robots.txt"))]
             ELSE [raised |-> FALSE, found |-> r.found, url |-> r.url,
                   probes |-> Append(probed, urljoin(base_url, "/robots.txt"))
                              \o VerifyProbes(n.lines)]

\* detect_strategy(seed)
DetectStrategy ==
    /\ dpc = "start"
    /\ LET url == Normalize(seed)
           r == check_sitemap(url, net)
       IN  /\ probes' = r.probes
           /\ IF r.raised
              THEN /\ dpc' = "raised"
                   /\ dresult' = [strategy |-> "none", url |-> <<>>]
              ELSE /\ dpc' = "done"
                   /\ dresult' = IF r.found THEN [strategy |-> "sitemap", url |-> r.url]
                                 ELSE [strategy |-> "recursive", url |-> url]
    /\ UNCHANGED <<seed, net, crawlVars, kbVars>>

\* detect_strategy(seed) on entry
InitDetect ==
    /\ seed \in Seeds
    /\ net \in Nets
    /\ dpc = "start"
    /\ probes = <<>>
    /\ dresult = [strategy |-> "none", url |-> <<>>]
    /\ CrawlIdle
    /\ KbIdle

NextDetect == DetectStrategy

SpecDetect == InitDetect /\ [][NextDetect]_vars

(***************************************************************************)
(* crawler.py: WebsiteCrawler.crawl_website and crawl_website, from the    *)
(* seed to the returned pages.  detect_strategy works on URLs as character *)
(* sequences with host a; the crawl functions work on the URLs of the      *)
(* model, which write that host as ex.com.                                 *)
(***************************************************************************)
IndexMap == "https://ex.com/sitemap_index.xml"
DirMap   == "https://ex.com/sitemap/sitemap.xml"
OffMap   == "https://ex.com/maps.xml"

HostA == HttpsPrefix \o <<"a">>

\* the discovered_url of detect_strategy as the crawl functions receive it
UrlOf(url) ==
    CASE url = HostA                                -> Seed
      [] url = urljoin(HostA, "/sitemap.xml")         -> RootMap
      [] url = urljoin(HostA, "/sitemap_index.xml")   -> IndexMap
      [] url = urljoin(HostA, "/sitemap/sitemap.xml") -> DirMap
      [] url = RobotsMap2                             -> OffMap
      [] OTHER                                        -> NoHref

\* `max_depth: int = 3` of crawl_recursive
default_max_depth == 3

\* the seeds given to crawl_website: host a as a bare name, with a scheme
\* and a trailing slash, and a seed on which urljoin raises
WebSeeds == { <<"a">>, HttpsPrefix \o <<"a", "/">>, <<"[">> }

\* the networks tried: each conventional path present or not, robots.txt
\* present or not, with no sitemap line, a line naming /sitemap_index.xml
\* or a line naming /maps.xml
WebNets ==
    [ head   : [1..Len(common_paths) -> {"200", "404"}],
      robots : {"200", "404"},
      lines  : { <<OtherLine>>,
                 <<OtherLine, RobotsLine(TRUE, RobotsMap1, "200")>>,
                 <<EmptyLine, RobotsLine(TRUE, RobotsMap2, "200")>> } ]

\* the five page URLs of the long sitemap
FivePages == SubSeq(UrlPool, 1, 5)

\* the sitemap documents of the site: /sitemap.xml lists two pages,
\* /sitemap_index.xml lists five, /maps.xml lists one, and
\* /sitemap/sitemap.xml does not download
WebDocs ==
    [u \in {RootMap, IndexMap, DirMap, OffMap} |->
        CASE u = RootMap  -> Locs(<<Seed, PageA>>)
          [] u = IndexMap -> Locs(FivePages)
          [] u = OffMap   -> Locs(<<PageB>>)
          [] OTHER        -> FailedDoc]

\* the links of the site: a chain from the seed, or a cycle
WebLinks ==
    { [NoLinks EXCEPT ![Seed] = <<PageA>>, ![PageA] = <<PageB>>],
      [NoLinks EXCEPT ![Seed] = <<PageA, PageB>>, ![PageA] = <<Seed>>] }

\* WebsiteCrawler(max_pages, max_depth).crawl_website(seed) on entry
InitWebsite ==
    /\ mode = "website"
    /\ seed \in WebSeeds
    /\ net \in WebNets
    /\ site \in SingleFault(Pages \cup Range(FivePages))
    /\ links \in WebLinks
    /\ docs = WebDocs
    /\ website_crawler \in [max_pages : 1..MaxPages, max_depth : 1..MaxDepth]
    /\ start_url = NoHref
    /\ max_pages = 0
    /\ max_depth = 0
    /\ pc = "crawl_website"
    /\ to_visit = <<>>
    /\ urls = <<>>
    /\ CrawlLocalsInit
    /\ dpc = "start"
    /\ probes = <<>>
    /\ dresult = [strategy |-> "none", url |-> <<>>]
    /\ KbIdle

\* the max_depth crawl_website hands to crawl_recursive: none, so the
\* parameter's default
PassedMaxDepth(self) == default_max_depth

\* the strategy test dropped: every crawl goes through crawl_recursive
CrawlFunctionAlwaysRecursive(strategy) == "recursive"

\* `if strategy == 'sitemap': crawl_from_sitemap ... else: crawl_recursive`
CrawlFunction(strategy) == IF strategy = "sitemap" THEN "sitemap" ELSE "recursive"

\* WebsiteCrawler.crawl_website up to the first await of the crawl function
\* that crawl_website selects
CrawlWebsite ==
    /\ pc = "crawl_website"
    /\ LET url == Normalize(seed)
           r == check_sitemap(url, net)
           strategy == IF r.found THEN "sitemap" ELSE "recursive"
           discovered_url == IF r.found THEN r.url ELSE url
       IN  /\ probes' = r.probes
           /\ IF r.raised
              THEN /\ dpc' = "raised"
                   /\ pc' = "raised"
                   /\ dresult' = dresult
                   /\ UNCHANGED <<start_url, max_pages, max_depth, to_visit>>
              ELSE /\ dpc' = "done"
                   /\ dresult' = [strategy |-> strategy, url |-> discovered_url]
                   /\ start_url' = UrlOf(discovered_url)
                   /\ max_pages' = website_crawler.max_pages
                   /\ pc' = CrawlFunction(strategy)
                   /\ IF pc' = "sitemap"
                      THEN UNCHANGED <<max_depth, to_visit>>
                      ELSE /\ max_depth' = PassedMaxDepth(website_crawler)
                           /\ max_depth' = PassedMaxDepth(website_crawler)
                           /\ to_visit' = <<[url |-> start_url', depth |-> 0]>>
    /\ UNCHANGED <<mode, site, links, docs, website_crawler, visited, pageDepth, skips,
                   batchVars, pages, fetches, seed, net, kbVars>>

NextWebsite ==
    \/ CrawlWebsite
    \/ Next

SpecWebsite == InitWebsite /\ [][NextWebsite]_vars

(***************************************************************************)
(* Properties of the crawler.                                              *)
(***************************************************************************)
PageUrls == [k \in 1..Len(pages) |-> pages[k].url]

\* C1: with max_pages >= 1, the number of accepted pages never exceeds
\* max_pages, in every state of crawl_recursive and of a sitemap-mode crawl,
\* the returned list included.
PageBudget ==
    (mode \in {"recursive", "sitemap"} /\ max_pages >= 1) => Len(pages) <= max_pages

\* a recursive crawl that returned a full budget with work left in the queue
PageBudgetWitness ==
    /\ mode = "recursive" /\ pc = "done"
    /\ max_pages >= 1 /\ Len(pages) = max_pages
    /\ to_visit # <<>>

\* C2: in crawl_recursive every URL is fetched at most once and is at most once
\* in pages, for every link graph; a fetched URL is in visited from then on, so
\* a URL whose fetch failed is discarded when it is popped again.
RecursiveUnique ==
    mode = "recursive" =>
        /\ NoDup(fetches)
        /\ NoDup(PageUrls)
        /\ Range(fetches) = visited
        /\ skips \subseteq visited
        /\ Range(PageUrls) \subseteq Range(fetches)

\* a URL whose fetch failed was found again later and discarded at pop time
RecursiveUniqueWitness ==
    /\ mode = "recursive" /\ pc = "done"
    /\ \E u \in skips : Outcome(u) # "ok" /\ u \in Range(fetches)

\* the entries appended to to_visit by one loop iteration carry the popped depth + 1
EnqueuedOneDeeper ==
    (pc = "recursive" /\ to_visit # <<>> /\ Len(pages) < max_pages) =>
        \A k \in Len(to_visit)..Len(to_visit') :
            to_visit'[k].depth = Head(to_visit).depth + 1

\* C3: every page of crawl_recursive's result was popped with a depth in
\* 0..max_depth, the seed with depth 0, and a link found on a page of depth d
\* is enqueued with depth d + 1.
DepthBound ==
    /\ [](mode = "recursive" =>
            /\ Len(pageDepth) = Len(pages)
            /\ \A k \in 1..Len(pageDepth) :
                 /\ 0 <= pageDepth[k] /\ pageDepth[k] <= max_depth
                 /\ pages[k].url = start_url => pageDepth[k] = 0)
    /\ [][mode = "recursive" => EnqueuedOneDeeper]_vars

\* a crawl that stopped at the depth limit: a page at depth max_depth is in the
\* result and the page it links to was never fetched, with budget left
DepthBoundWitness ==
    /\ mode = "recursive" /\ pc = "done"
    /\ max_depth = 1
    /\ Len(pages) < max_pages
    /\ \E k \in 1..Len(pages) :
         /\ pageDepth[k] = max_depth
         /\ \E h \in Range(links[pages[k].url]) : h \in Pages \ visited

\* C4: in a sitemap-mode crawl no page URL is fetched more than once, also when
\* the resolved sitemap lists it more than once.
SitemapFetchUnique ==
    mode = "sitemap" => NoDup(fetches)

\* C5: in a sitemap-mode crawl the list handed to crawl_urls is the first
\* min(max_pages, len) URLs of the resolved list, in order, and at most
\* max_pages fetches are issued.
SitemapTruncation ==
    (mode = "sitemap" /\ pc # "sitemap") =>
        /\ urls = SubSeq(resolved, 1, Min(max_pages, Len(resolved)))
        /\ Len(fetches) <= max_pages
        /\ fetches = SubSeq(urls, 1, Len(fetches))

\* a sitemap longer than the budget, crawled to the end
SitemapTruncationWitness ==
    /\ mode = "sitemap" /\ pc = "done"
    /\ max_pages >= 1
    /\ Len(resolved) > max_pages
    /\ Len(fetches) = max_pages

RECURSIVE OkUrls(_)
\* the URLs of a list whose fetch succeeds with non-empty text, in list order
OkUrls(us) ==
    IF us = <<>> THEN <<>>
    ELSE (IF Outcome(Head(us)) = "ok" THEN <<Head(us)>> ELSE <<>>) \o OkUrls(Tail(us))

\* C9: in crawl_urls an exception of one fetch neither cancels nor fails the
\* others: crawl_urls never ends by that exception, every URL of every batch is
\* fetched, and the returned pages are exactly the URLs whose fetch succeeded
\* with non-empty text, later batches included.
BatchIsolation ==
    mode = "urls" =>
        /\ pc # "raised"
        /\ pc = "done" => /\ fetches = urls
                          /\ PageUrls = OkUrls(urls)

\* two batches, a fetch of the first one raised, every other URL is in the result
BatchIsolationWitness ==
    /\ mode = "urls" /\ pc = "done"
    /\ Len(urls) > batch_size
    /\ \E k \in 1..batch_size : Outcome(urls[k]) = "raise"
    /\ Len(pages) = Len(urls) - 1
    /\ pages[Len(pages)].url = urls[Len(urls)]


\* C18: sitemap resolution requests each sitemap URL at most once, also
\* when an index lists itself or two indexes list each other.
SitemapExpandedOnce ==
    mode = "sitemap" /\ pc # "sitemap" => NoDup(SitemapRequests(start_url, 1))

RECURSIVE IsSubseq(_, _)
\* the elements of a occur in b in the same order
IsSubseq(a, b) ==
    \/ a = <<>>
    \/ /\ b # <<>>
       /\ IF Head(a) = Head(b) THEN IsSubseq(Tail(a), Tail(b)) ELSE IsSubseq(a, Tail(b))

\* the page URLs a sitemap document lists itself
DirectPages(locs) == SelectSeq(locs, LAMBDA u : ~IsSubSitemap(u))

\* the sub-sitemaps the index passed to crawl_from_sitemap lists
Branches == {u \in Range(Doc(start_url).locs) : IsSubSitemap(u)}

\* C19: when the sitemap index downloads, its resolution holds, in
\* document order, every page URL the index lists itself and every page
\* URL listed by each nested sitemap that downloads, whether or not
\* another nested sitemap fails; a failed branch adds nothing: every URL of
\* the result is listed by a document that downloaded.
SitemapBranchLocal ==
    mode = "sitemap" /\ pc # "sitemap" /\ Doc(start_url).ok
    => /\ IsSubseq(DirectPages(Doc(start_url).locs), resolved)
       /\ \A s \in Branches : Doc(s).ok => IsSubseq(DirectPages(Doc(s).locs), resolved)
       /\ \A u \in Range(resolved) :
            \E s \in DOMAIN docs : Doc(s).ok /\ u \in Range(Doc(s).locs)

\* an index resolved with one nested sitemap failed, beside a page of its
\* own and a nested sitemap that downloaded with a page
SitemapBranchLocalWitness ==
    /\ mode = "sitemap" /\ pc # "sitemap" /\ Doc(start_url).ok
    /\ \E s, t \in Branches :
          /\ ~Doc(s).ok
          /\ Doc(t).ok /\ DirectPages(Doc(t).locs) # <<>>
          /\ IsSubseq(DirectPages(Doc(t).locs), resolved)
    /\ DirectPages(Doc(start_url).locs) # <<>>
    /\ Len(resolved) >= 2

\* the same-domain links of a page, in page order, each one level deeper
LinksOneDeeper(url, depth) ==
    LET internal == SelectSeq(links[url],
                        LAMBDA h : h # NoHref /\ get_base_domain(h) = get_base_domain(start_url))
    IN  [k \in 1..Len(internal) |-> [url |-> internal[k], depth |-> depth + 1]]

\* C24: in crawl_recursive, a loop iteration that pops an entry (url, d)
\* with d < max_depth, marks it visited and fetches it with a result
\* (success, with or without text) appends to the queue every same-domain
\* link of the page as (link, d + 1), visited or not, whether or not the
\* page was accepted.
FrontierExpansion ==
    [][mode = "recursive" /\ pc = "recursive" /\ LoopCond(to_visit, pages, max_pages)
       => LET e == Head(to_visit)
          IN  ~ShouldSkip(e.url, e.depth, visited, max_depth)
              /\ e.depth < max_depth
              /\ Outcome(e.url) \in {"ok", "empty"}
              => /\ e.url \in visited'
                 /\ fetches' = Append(fetches, e.url)
                 /\ to_visit' = Tail(to_visit) \o LinksOneDeeper(e.url, e.depth)]_vars

\* C25: in crawl_recursive a fetch that raises, reports failure or yields
\* empty text leaves its URL out of the result, keeps the pages accepted so
\* far and leaves the loop running on the rest of the queue: the crawl never
\* ends by an exception, every page of the result was fetched with success
\* and text, and pages only grows.
RecursiveFailureLocal ==
    /\ [](mode = "recursive" =>
            /\ pc \in {"recursive", "done"}
            /\ \A k \in 1..Len(pages) : Outcome(pages[k].url) = "ok")
    /\ [][mode = "recursive" /\ fetches' # fetches
              /\ Outcome(fetches'[Len(fetches')]) # "ok"
          => /\ pages' = pages
             /\ pc' = "recursive"
             /\ to_visit' = Tail(to_visit)]_vars
    /\ [][mode = "recursive" => Len(pages') >= Len(pages)
                                /\ SubSeq(pages', 1, Len(pages)) = pages]_vars

\* a crawl that returned two pages, one accepted before and one after a
\* fetch that raised
RecursiveFailureLocalWitness ==
    /\ mode = "recursive" /\ pc = "done"
    /\ Len(fetches) = 3 /\ Outcome(fetches[2]) = "raise"
    /\ PageUrls = <<fetches[1], fetches[3]>>

RECURSIVE SumLinks(_)
\* the number of hrefs on the pages of a set
SumLinks(U) ==
    IF U = {} THEN 0
    ELSE LET u == CHOOSE x \in U : TRUE IN Len(links[u]) + SumLinks(U \ {u})

\* C30: crawl_recursive, run whenever it can go on with every fetch
\* returning, eventually returns; each URL is fetched, and so expanded, at
\* most once, and the queue never holds more than the seed and the links of
\* the pages fetched so far.
RecursiveTerminates ==
    /\ (mode = "recursive") ~> (mode = "recursive" /\ pc = "done")
    /\ [](mode = "recursive" =>
            /\ NoDup(fetches)
            /\ Len(to_visit) <= 1 + SumLinks(Range(fetches)))

\* a crawl over the cycle with repeated links that returned with every page
\* fetched and entries discarded as already visited
RecursiveTerminatesWitness ==
    /\ mode = "recursive" /\ pc = "done"
    /\ Range(fetches) = Pages
    /\ skips # {}
    /\ Seed \in Range(links[PageA]) /\ PageA \in Range(links[PageB])

\* C23: during crawl_urls at most batch_size (10) fetches are in flight at
\* any moment, the fetches issued so far are the batches up to the current
\* one, and a step that starts fetches starts them when no fetch is in
\* flight and every fetch issued before has completed.
BoundedBatchConcurrency ==
    /\ [](mode = "urls" =>
            /\ Cardinality(inflight) <= batch_size
            /\ Len(fetches) <= batch_i + batch_size
            /\ inflight # {} => Len(fetches) = Min(batch_i + batch_size, Len(urls)))
    /\ [][mode = "urls" /\ fetches' # fetches
          => /\ inflight = {}
             /\ Len(fetches) = batch_i
             /\ \A k \in DOMAIN results : results[k] # "pending"
             /\ Len(fetches') - Len(fetches) <= batch_size]_vars

\* a full batch of ten fetches is in flight while another URL waits for the
\* next batch
BoundedBatchConcurrencyWitness ==
    /\ mode = "urls" /\ pc = "gather"
    /\ Cardinality(inflight) = batch_size
    /\ Len(urls) > batch_size
    /\ Len(fetches) = batch_size

(***************************************************************************)
(* Properties of the knowledge-base handlers.                              *)
(***************************************************************************)
\* a step in which call c, resumed after its crawl, returns with this result
ReturnsWith(c, result) ==
    /\ calls[c].pc = "crawling" /\ calls'[c].pc = "free"
    /\ resp'.op = "create" /\ resp'.name = calls[c].name /\ resp'.kind = result

\* C6: creation is all-or-nothing with respect to what knowledge_list shows.
\* A knowledge_create that fails at vector-store initialisation or at
\* document indexing does not write the metadata file of its name; a name
\* that knowledge_list does not show stays unshown until a knowledge_create
\* of that name returns success; and every knowledge base that
\* knowledge_list shows has a documents table with at least one row, so the
\* metadata file is written only after indexing has succeeded.
CreateAllOrNothing ==
    /\ [](\A n \in Listed : kb[n].table /\ kb[n].rows >= 1)
    /\ [][\A c \in 1..MaxCalls :
            ReturnsWith(c, "init_failed") \/ ReturnsWith(c, "index_failed")
            => LET n == calls[c].name
               IN  /\ kb'[n].meta = kb[n].meta
                   /\ kb'[n].documents = kb[n].documents
                   /\ (n \in Listed' <=> n \in Listed)]_vars
    /\ [][\A n \in KbNames :
            n \notin Listed /\ n \in Listed'
            => \E c \in 1..MaxCalls : calls[c].name = n /\ ReturnsWith(c, "success")]_vars

\* a creation has just failed at indexing, after its directory and vector
\* store were made, and knowledge_list would not show its name
CreateAllOrNothingWitness ==
    /\ resp.op = "create" /\ resp.kind = "index_failed"
    /\ kb[resp.name].dir /\ kb[resp.name].inner
    /\ ~kb[resp.name].table
    /\ resp.name \notin Listed

\* the name given to the knowledge_create that starts in this step
BegunName ==
    IF calls' # calls
    THEN calls'[CHOOSE c \in 1..MaxCalls : calls'[c] # calls[c]].name
    ELSE resp'.name

\* C7: a knowledge_create whose name is valid and whose directory exists
\* returns the "already exists" error in the step that starts it, without
\* reaching the crawl, and leaves every knowledge-base directory (storage,
\* metadata, recorded document count) and every generated server unchanged.
NameConflictUnchanged ==
    [][created' # created /\ BegunName \in DOMAIN kb /\ kb[BegunName].dir
       => /\ resp' = Response("create", BegunName, TRUE, "exists", {})
          /\ calls' = calls
          /\ kb' = kb
          /\ servers' = servers]_vars

\* a creation has just been refused for a name that knowledge_list shows
\* with its documents indexed
NameConflictUnchangedWitness ==
    /\ resp.op = "create" /\ resp.kind = "exists"
    /\ resp.name \in Listed
    /\ kb[resp.name].documents >= 1
    /\ kb[resp.name].rows >= 1

\* C8: removing a knowledge base whose directory does not exist answers
\* success.
RemoveMissingSucceeds ==
    resp.op = "remove" /\ ~resp.existed => resp.kind = "ok"

\* C11: the metadata file of every knowledge base is absent or completely
\* written, never partially written.
MetadataAtomic ==
    \A n \in DOMAIN kb : kb[n].meta \in {"absent", "full"}

\* C12: a search that embeds its query does so with the embedding identity
\* recorded in the metadata of the knowledge base searched.
SearchUsesRecordedIdentity ==
    resp.op = "search" /\ resp.identity # "" /\ kb[resp.name].meta = "full"
    => resp.identity = EmbeddingIdentity(kb[resp.name].use_openai,
                                         kb[resp.name].embedding_model)

\* C13: when a knowledge_create has just succeeded, the embedding_model its
\* metadata records is the identity the vectors of its table were made with.
RecordedIdentityIsUsed ==
    resp.op = "create" /\ resp.kind = "success"
    => kb[resp.name].vec = {kb[resp.name].embedding_model}

\* a letter, a digit, a hyphen or an underscore
AllowedChar(c) == c \in Letters \cup Digits \cup {"-", "_"}

\* C14: a knowledge_create whose name holds a character other than a
\* letter, digit, hyphen or underscore returns the invalid-name error in the
\* step that starts it: no call is left crawling, and no knowledge-base
\* directory and no generated server changes.
InvalidNameRejected ==
    [][created' # created /\ (\E k \in 1..Len(BegunName) : ~AllowedChar(BegunName[k]))
       => /\ resp' = Response("create", BegunName, FALSE, "invalid", {})
          /\ calls' = calls
          /\ kb' = kb
          /\ servers' = servers]_vars

\* C15: a knowledge_create whose crawl produced zero pages returns the
\* explicit "no pages" error and changes no knowledge-base directory and no
\* generated server (no storage made, no metadata written, nothing new for
\* knowledge_list to show); a knowledge_create returns success only with at
\* least one document.
ZeroPagesNoStorage ==
    /\ [][\A c \in 1..MaxCalls :
            ReturnsWith(c, "no_pages") => kb' = kb /\ servers' = servers]_vars
    /\ [][\A c \in 1..MaxCalls :
            ReturnsWith(c, "success") => kb'[calls[c].name].documents >= 1]_vars

\* a creation has just answered "no pages" and its name has no directory
ZeroPagesNoStorageWitness ==
    /\ resp.op = "create" /\ resp.kind = "no_pages"
    /\ ~kb[resp.name].dir /\ kb[resp.name].meta = "absent"
    /\ resp.name \notin Listed

\* C16: a knowledge_create that indexed its documents and wrote its
\* metadata reports success whatever query-server generation did: when it
\* has just returned success its knowledge base is listed with a recorded
\* document count and a documents table, and a knowledge_create that leaves
\* complete metadata on a directory it changed returns success.
GenerationFailureNonFatal ==
    /\ [](resp.op = "create" /\ resp.kind = "success"
          => /\ resp.name \in Listed
             /\ kb[resp.name].documents >= 1
             /\ kb[resp.name].table /\ kb[resp.name].rows >= 1)
    /\ [][\A c \in 1..MaxCalls :
            LET n == calls[c].name
            IN  calls[c].pc = "crawling" /\ calls'[c].pc = "free"
                /\ kb'[n].meta = "full" /\ kb'[n] # kb[n]
                => resp'.kind = "success"]_vars

\* a creation has just returned success although no server directory was
\* generated for its name
GenerationFailureNonFatalWitness ==
    /\ resp.op = "create" /\ resp.kind = "success"
    /\ resp.name \notin servers
    /\ resp.name \in Listed /\ kb[resp.name].rows >= 1

\* the directories whose metadata.json is the well-formed file
WellFormed == {n \in DOMAIN kb : kb[n].dir /\ kb[n].meta = "full"}

\* C17: whatever directories with missing or corrupt metadata lie beside
\* them, knowledge_list does not fail and its answer holds every knowledge
\* base whose metadata is well-formed.
ListSkipsBadEntries ==
    resp.op = "list" => resp.kind = "ok" /\ WellFormed \subseteq resp.shown

\* C20: a search of a knowledge base whose vector store was initialised and
\* holds zero documents returns the empty result (total 0), not a failure
\* value.
SearchEmptyKbValid ==
    resp.op = "search" /\ kb[resp.name].inner /\ kb[resp.name].rows = 0
    => resp.kind = "empty"

\* C26: a knowledge_create that returns from its crawl when another call
\* with the same name has meanwhile created the knowledge base (its metadata
\* is complete) does not succeed, adds no rows to its table and leaves its
\* metadata as it is.
NameUniqueInterleaved ==
    [][\A c \in 1..MaxCalls :
         LET n == calls[c].name
         IN  calls[c].pc = "crawling" /\ calls'[c].pc = "free" /\ kb[n].meta = "full"
             => /\ resp'.kind # "success"
                /\ kb'[n].rows = kb[n].rows
                /\ kb'[n].documents = kb[n].documents
                /\ kb'[n].embedding_model = kb[n].embedding_model
                /\ kb'[n].use_openai = kb[n].use_openai]_vars

\* C27: a knowledge_create that returns a failure leaves the directory of
\* its name absent when it was absent as the call resumed from its crawl,
\* so that a later knowledge_create of the name is not refused.
FailedCreateLeavesNameFree ==
    [][\A c \in 1..MaxCalls :
         LET n == calls[c].name
         IN  calls[c].pc = "crawling" /\ calls'[c].pc = "free"
             /\ resp'.kind # "success" /\ ~PathExists(n)
             => ~kb'[n].dir]_vars

\* C28: when a knowledge_create has just succeeded, the document count in
\* the metadata of its knowledge base is the number of rows of its
\* documents table.
DocumentCountConsistent ==
    resp.op = "create" /\ resp.kind = "success"
    => kb[resp.name].documents = kb[resp.name].rows

(***************************************************************************)
(* Properties of strategy detection.                                       *)
(***************************************************************************)
\* C10: detect_strategy never raises, and what it returns is a strategy in
\* {sitemap, recursive} with a non-empty URL.
DetectNeverRaises ==
    /\ dpc # "raised"
    /\ dpc = "done" => /\ dresult.strategy \in {"sitemap", "recursive"}
                       /\ dresult.url # <<>>

(***************************************************************************)
(* Properties of crawl_website, from the seed to the returned pages.       *)
(***************************************************************************)
\* the seed is the bare host name, robots.txt is served and names
\* /sitemap_index.xml on a sitemap line whose existence check succeeds, that
\* sitemap lists five page URLs whose fetches all succeed with text, no other
\* conventional sitemap path is served, and max_pages is 3
ScenarioSite ==
    /\ mode = "website"
    /\ seed = <<"a">>
    /\ net.robots = "200"
    /\ \E k \in 1..Len(net.lines) : net.lines[k] = RobotsLine(TRUE, RobotsMap1, "200")
    /\ net.head[1] # "200" /\ net.head[3] # "200"
    /\ Doc(IndexMap).ok /\ Len(Doc(IndexMap).locs) = 5
    /\ \A u \in Range(Doc(IndexMap).locs) : Outcome(u) = "ok"
    /\ website_crawler.max_pages = 3

\* C21: for the bare seed whose robots.txt holds a sitemap line naming
\* /sitemap_index.xml, which answers the existence check and lists five
\* fetchable page URLs, a crawl with max_pages = 3 selects the sitemap
\* strategy with that URL and returns exactly 3 pages, the first three
\* listed.
ScenarioSitemap ==
    ScenarioSite /\ pc \notin {"crawl_website"}
    => /\ dresult = [strategy |-> "sitemap", url |-> RobotsMap1]
       /\ pc # "raised"
       /\ pc = "done" => /\ Len(pages) = 3
                         /\ PageUrls = SubSeq(FivePages, 1, 3)

\* the scenario crawled to the end, the sitemap found through robots.txt
\* after the three conventional paths failed
ScenarioSitemapWitness ==
    /\ ScenarioSite /\ pc = "done"
    /\ net.head[2] # "200"
    /\ Len(resolved) = 5 /\ Len(pages) = 3

\* the candidates of a detection in the order of the claim: the three
\* conventional paths joined to the normalised seed, then, when robots.txt
\* was served, the URLs of its sitemap lines in file order; each with whether
\* its existence check answers 200
Candidates ==
    LET base == Normalize(seed)
        sitemapLines == SelectSeq(net.lines, LAMBDA l : l.isSitemap)
    IN  [k \in 1..Len(common_paths) |->
            [url |-> urljoin(base, common_paths[k]), ok |-> net.head[k] = "200"]]
        \o (IF net.robots = "200"
            THEN [k \in 1..Len(sitemapLines) |->
                    [url |-> sitemapLines[k].url, ok |-> sitemapLines[k].verify = "200"]]
            ELSE <<>>)

\* the position of the first candidate whose check succeeds, 0 when none does
FirstOk ==
    LET hits == {k \in 1..Len(Candidates) : Candidates[k].ok}
    IN  IF hits = {} THEN 0 ELSE CHOOSE k \in hits : \A j \in hits : k <= j

\* the requests of a detection without the one for robots.txt
CandidateProbes ==
    SelectSeq(probes, LAMBDA u : u # urljoin(Normalize(seed), "/robots.txt"))

\* the position of the robots.txt request among the requests, 0 when not made
RobotsAt ==
    LET at == {k \in 1..Len(probes) : probes[k] = urljoin(Normalize(seed), "/robots.txt")}
    IN  IF at = {} THEN 0 ELSE CHOOSE k \in at : TRUE

\* url has no trailing slash and is the seed, with https:// put before it
\* when it has no scheme, less its trailing slashes
IsNormalizedSeed(url) ==
    LET hasScheme == StartsWithSeq(seed, HttpPrefix) \/ StartsWithSeq(seed, HttpsPrefix)
        full == IF hasScheme THEN seed ELSE HttpsPrefix \o seed
    IN  /\ url = <<>> \/ url[Len(url)] # "/"
        /\ StartsWithSeq(full, url)
        /\ \A k \in (Len(url) + 1)..Len(full) : full[k] = "/"

\* C22: when detect_strategy returns, the candidates were requested in the
\* order /sitemap.xml, /sitemap_index.xml, /sitemap/sitemap.xml, then the
\* sitemap lines of robots.txt in file order, up to and including the first
\* whose existence check succeeded, which is the URL returned with strategy
\* sitemap; robots.txt was requested only after the three conventional
\* paths had failed; and when no candidate succeeded the result is
\* recursive with the normalised seed.
ProbeOrdering ==
    dpc = "done" =>
        LET n == IF FirstOk = 0 THEN Len(Candidates) ELSE FirstOk
        IN  /\ CandidateProbes = [k \in 1..n |-> Candidates[k].url]
            /\ FirstOk # 0 => dresult = [strategy |-> "sitemap", url |-> Candidates[FirstOk].url]
            /\ FirstOk = 0 => /\ dresult.strategy = "recursive"
                              /\ IsNormalizedSeed(dresult.url)
            /\ RobotsAt # 0 => /\ RobotsAt = Len(common_paths) + 1
                               /\ \A k \in 1..Len(common_paths) : net.head[k] # "200"
            /\ RobotsAt = 0 => \E k \in 1..Len(common_paths) : net.head[k] = "200"

\* a detection that returned the second sitemap line of robots.txt after the
\* three conventional paths and the first sitemap line with a URL had failed
ProbeOrderingWitness ==
    /\ dpc = "done"
    /\ dresult = [strategy |-> "sitemap", url |-> RobotsMap2]
    /\ RobotsMap1 \in Range(probes)
    /\ Len(probes) >= 6

\* C29: a crawl started through WebsiteCrawler(max_pages, max_depth)
\* .crawl_website that fell back to the recursive strategy holds no page
\* popped at a depth beyond the instance's max_depth.
DepthBudgetEndToEnd ==
    mode = "website" /\ dresult.strategy = "recursive"
    => \A k \in 1..Len(pageDepth) : pageDepth[k] <= website_crawler.max_depth

====
